---- MODULE Spec2Model ----
(***************************************************************************)
(* iNIBP_UI: the serial frame decoder (SerialManager, src/serial.js and    *)
(* the bundled copy in src/unnamed/part_000) and the chart batching code   *)
(* (src/app.js and the bundled variant in src/unnamed/part_000).           *)
(*                                                                         *)
(* Representation.                                                         *)
(*  - rxBuffer is the Uint8Array prefix rxBuffer[0 .. rxHead): the code    *)
(*    never reads an index at or beyond rxHead (the scan stops at          *)
(*    rxHead - 11, copyWithin ends at rxHead), so the stale bytes beyond   *)
(*    it are not kept.  JS index i is sequence index i + 1.                *)
(*  - A JS number k / 100.0 is the exact rational in lowest terms,         *)
(*    [num, den].                                                          *)
(*  - rxOrigin, stream positions, emitted, consumed, raised and resetAt    *)
(*    are history variables: they record where bytes came from and what    *)
(*    onDataCallback received.                                             *)
(*  - build says which page runs; state has the fields of that page's      *)
(*    state object.  A chart is the record [labels, data, marker]; null in *)
(*    a marker dataset is the record Null.  animationFrameId is NoFrame    *)
(*    for null and FrameHandle for a pending requestAnimationFrame handle. *)
(*  - nDelivered, nDeliveries, delivered, pushed, batches, appended,       *)
(*    lastFlush and lastOp are history variables of the page.              *)
(*                                                                         *)
(* Specifications.                                                         *)
(*  - Spec: one byte stream, chunked in every way, through the decoder     *)
(*    into handleSerialData of app.js.                                     *)
(*  - SpecUI: samples handed to handleSerialData one at a time,            *)
(*    interleaved with animation frames, Clear Graphs and Find Max.        *)
(*  - SpecCap: samples handed over in long runs, so that the charts        *)
(*    exceed MAX_POINTS.                                                   *)
(***************************************************************************)
EXTENDS Integers, Sequences, FiniteSets, TLC

VARIABLES
    input,      \* the byte stream the transport will deliver (history)
    fed,        \* how many bytes of input have been delivered so far
    rxBuffer,   \* SerialManager.rxBuffer[0 .. rxHead)
    rxOrigin,   \* rxOrigin[i]: position in input of the byte rxBuffer[i]
    rxHead,     \* SerialManager.rxHead
    emitted,    \* what onDataCallback received, in call order
    consumed,   \* bytes of input the decoder has dropped or scanned past
    raised,     \* some processIncomingChunk call has thrown
    resetAt     \* positions in input of the first byte of each chunk that
                \* triggered the overflow reset

VARIABLES
    build,                \* which page runs: "app" (src/app.js) or "bundle"
                          \* (src/unnamed/part_000)
    state,                \* the page's state object
    chartBuffer,          \* app.js chartBuffer {cuff, pulse}
    animationFrameId,     \* app.js animationFrameId
    frames,               \* renderLoop callbacks the host holds for the next
                          \* animation frame (requestAnimationFrame)
    globalDataPointCount, \* part_000 globalDataPointCount
    cuffChart,            \* state.cuffChart: labels, datasets[0].data (data)
    pulseChart,           \* and datasets[1].data (marker)
    nDelivered,           \* samples handed to handleSerialData so far
    nDeliveries,          \* uninterrupted runs of handleSerialData calls so far
    delivered,            \* samples handed to handleSerialData since the last
                          \* clear, and those still queued at that clear
    pushed,               \* samples put in the pending queue since the last clear
    batches,              \* the non-empty batches the render loop took since
                          \* the last clear
    appended,             \* samples appended to the charts since the last clear
    lastFlush,            \* the latest render loop run: queue before, batch taken
    lastOp                \* the latest handler that ran

VARIABLES
    serial,     \* SerialManager: port, reader, isReading
    device,     \* the browser's SerialPort and its streams: state, readLock
                \* (readable locked by a reader), writeLock, listening (the
                \* 'disconnect' listener is registered), event (a 'disconnect'
                \* event is queued)
    readLoop,   \* where startReading stands
    calls,      \* the async handlers waiting at an await, oldest first
    logger,     \* Logger: fileHandle, writable, fileName
    streams,    \* the writable file streams created so far: state and text
    ui,         \* what the page shows: connected (status light and text),
                \* logEnabled (!btnLog.disabled)
    connLog,    \* the steps of disconnecting since the last connect (history)
    raisedOps,  \* the operations that ended with an uncaught error (history)
    sent,       \* the command bytes the device received (history)
    budget      \* user and device events still allowed

decoderVars == <<input, fed, rxBuffer, rxOrigin, rxHead, emitted, consumed,
                 raised, resetAt>>

pageVars == <<build, state, chartBuffer, animationFrameId, frames,
              globalDataPointCount,
              cuffChart, pulseChart>>

historyVars == <<nDelivered, nDeliveries, delivered, pushed, batches, appended,
                 lastFlush, lastOp>>

connVars == <<serial, device, readLoop, calls, ui, connLog, raisedOps, sent>>

logVars == <<logger, streams>>

vars == <<input, fed, rxBuffer, rxOrigin, rxHead, emitted, consumed,
          raised, resetAt, build, state, chartBuffer, animationFrameId, frames,
          globalDataPointCount, cuffChart, pulseChart, nDelivered, nDeliveries,
          delivered, pushed, batches, appended, lastFlush, lastOp,
          serial, device, readLoop, calls, logger, streams, ui, connLog,
          raisedOps, sent, budget>>

(***************************************************************************)
(* Program constants                                                       *)
(***************************************************************************)
Capacity == 4096
FrameLen == 11
Marker == 170
PayloadLen == 8

(***************************************************************************)
(* Numbers                                                                 *)
(***************************************************************************)
RECURSIVE Gcd(_, _)
Gcd(a, b) == IF b = 0 THEN a ELSE Gcd(b, a % b)

\* x / 100.0 as an exact rational in lowest terms (den > 0)
DivBy100(x) ==
    LET g == Gcd(100, x % 100)
    IN  [num |-> x \div g, den |-> 100 \div g]

\* (a > t) and (a >= t) for a rational a and an integer t
NumGT(a, t) == a.num > t * a.den
NumGE(a, t) == a.num >= t * a.den

\* bitwise XOR of two bytes
RECURSIVE BitXor(_, _)
BitXor(a, b) ==
    IF a = 0 THEN b
    ELSE IF b = 0 THEN a
    ELSE 2 * BitXor(a \div 2, b \div 2) + ((a + b) % 2)

(***************************************************************************)
(* SerialManager: frame validation and decoding                            *)
(***************************************************************************)
\* buf[idx] with the JS index idx
At(buf, idx) == buf[idx + 1]

\* verifyChecksum(idx): XOR of bytes idx .. idx+9 equals byte idx+10
RECURSIVE XorRange(_, _, _)
XorRange(buf, idx, n) ==
    IF n = 0 THEN 0 ELSE BitXor(XorRange(buf, idx, n - 1), At(buf, idx + n - 1))

\* mutant: the loop stops one byte early (i < 9)
VerifyChecksum_NineBytes(buf, idx) == XorRange(buf, idx, 9) = At(buf, idx + 10)

VerifyChecksum(buf, idx) == XorRange(buf, idx, 10) = At(buf, idx + 10)

\* mutant: getInt32(off) without the little-endian flag reads big-endian
GetInt32LE_BigEndian(buf, off) ==
    LET b0 == At(buf, off + 3)
        b1 == At(buf, off + 2)
        b2 == At(buf, off + 1)
        b3 == At(buf, off)
        hi == IF b3 >= 128 THEN b3 - 256 ELSE b3
    IN  b0 + 256 * b1 + 65536 * b2 + 16777216 * hi

\* DataView.getInt32(off, true): little-endian, two's complement
GetInt32LE(buf, off) ==
    LET b0 == At(buf, off)
        b1 == At(buf, off + 1)
        b2 == At(buf, off + 2)
        b3 == At(buf, off + 3)
        hi == IF b3 >= 128 THEN b3 - 256 ELSE b3
    IN  b0 + 256 * b1 + 65536 * b2 + 16777216 * hi

\* parsePacket(idx): the {cuff, pulse} object handed to onDataCallback
ParsePacket(buf, idx) ==
    [cuff  |-> DivBy100(GetInt32LE(buf, idx + 2)),
     pulse |-> DivBy100(GetInt32LE(buf, idx + 6))]

\* the three tests of the scan loop at searchIdx
IsPacketAt(buf, idx) ==
    /\ At(buf, idx) = Marker
    /\ At(buf, idx + 1) = PayloadLen
    /\ VerifyChecksum(buf, idx)

\* mutant: a packet moves the cursor one byte past its end
ScanAdvance_PastFrame(buf, idx) == IF IsPacketAt(buf, idx) THEN FrameLen + 1 ELSE 1

\* mutant: a marker followed by a wrong length byte is skipped like a packet
ScanAdvance_WrongLengthSkipsFrame(buf, idx) ==
    IF IsPacketAt(buf, idx) \/ (At(buf, idx) = Marker /\ At(buf, idx + 1) # PayloadLen)
    THEN FrameLen
    ELSE 1

\* mutant: a marker byte that starts no packet is skipped like a packet
ScanAdvance_MarkerSkipsFrame(buf, idx) ==
    IF At(buf, idx) = Marker THEN FrameLen ELSE 1

\* How far one iteration of the scan loop moves searchIdx
ScanAdvance(buf, idx) == IF IsPacketAt(buf, idx) THEN FrameLen ELSE 1

\* what onDataCallback receives for the packet at idx, with the positions in
\* input of the first and last byte of its window
Delivery(buf, org, idx) ==
    [sample |-> ParsePacket(buf, idx),
     first  |-> At(org, idx),
     last   |-> At(org, idx + FrameLen - 1)]

(***************************************************************************)
(* The scan loop  while (searchIdx <= rxHead - 11) { ... }                 *)
(* ScanLoop runs the iterations whose searchIdx is below hi; ScanRange     *)
(* runs the loop over [lo, hi) half by half, so that the evaluation depth  *)
(* stays small for a full buffer.  Both return <<searchIdx, deliveries>>.  *)
(***************************************************************************)
ScanBlock == 3 * FrameLen

RECURSIVE ScanLoop(_, _, _, _, _, _)
ScanLoop(buf, org, head, hi, idx, out) ==
    IF idx > head - FrameLen \/ idx >= hi
    THEN <<idx, out>>
    ELSE IF IsPacketAt(buf, idx)
         THEN ScanLoop(buf, org, head, hi, idx + ScanAdvance(buf, idx),
                       Append(out, Delivery(buf, org, idx)))
         ELSE ScanLoop(buf, org, head, hi, idx + ScanAdvance(buf, idx), out)

RECURSIVE ScanRange(_, _, _, _, _, _, _)
ScanRange(buf, org, head, lo, hi, idx, out) ==
    IF hi - lo <= ScanBlock
    THEN ScanLoop(buf, org, head, hi, idx, out)
    ELSE LET mid == (lo + hi) \div 2
             r   == ScanRange(buf, org, head, lo, mid, idx, out)
         IN  IF r[1] > head - FrameLen
             THEN r
             ELSE ScanRange(buf, org, head, mid, hi, r[1], r[2])

\* mutant: the loop runs while  searchIdx <= this.rxHead - 12
Scan_StopsEarly(buf, org, head) ==
    ScanRange(buf, org, head - 1, 0, Capacity, 0, <<>>)

Scan(buf, org, head) == ScanRange(buf, org, head, 0, Capacity, 0, <<>>)

(***************************************************************************)
(* processIncomingChunk                                                    *)
(***************************************************************************)
\* lines 88-93: the overflow test and the reset of rxHead
OverflowReset(head, len) == head + len > Capacity

\* mutant: the reset is left out
HeadForAppend_NoReset(head, len) == head

HeadForAppend(head, len) == IF OverflowReset(head, len) THEN 0 ELSE head

\* TypedArray.prototype.set(source, offset) throws a RangeError when the
\* source does not fit behind offset
SetRaises(off, len) == off + len > Capacity

\* rxBuffer.set(chunk, off), on the prefix [0, off)
TypedArraySet(buf, chunk, off) == SubSeq(buf, 1, off) \o chunk

\* mutant: rxHead is lowered but the tail is not moved to the front
CopyWithin_NotMoved(buf, start, end) == SubSeq(buf, 1, end - start)

\* rxBuffer.copyWithin(0, start, end): afterwards [0, end - start) holds the
\* old [start, end)
CopyWithin(buf, start, end) == SubSeq(buf, start + 1, end)

\* One call.  chunkOrg are the positions in input of the chunk's bytes.
\* Returns the new buffer, origins and head, the deliveries made, whether the
\* call threw, and the number of buffered bytes it dropped or scanned past.
ProcessIncomingChunk(buf, org, head, chunk, chunkOrg) ==
    LET len   == Len(chunk)
        head1 == HeadForAppend(head, len)
    IN  IF SetRaises(head1, len)
        THEN [buf |-> SubSeq(buf, 1, head1), org |-> SubSeq(org, 1, head1),
              head |-> head1, out |-> <<>>, raised |-> TRUE,
              gone |-> (head - head1) + len]
        ELSE LET buf2  == TypedArraySet(buf, chunk, head1)
                 org2  == TypedArraySet(org, chunkOrg, head1)
                 head2 == head1 + len
                 r     == Scan(buf2, org2, head2)
                 idx   == r[1]
             IN  [buf  |-> IF idx > 0 THEN CopyWithin(buf2, idx, head2) ELSE buf2,
                  org  |-> IF idx > 0 THEN CopyWithin(org2, idx, head2) ELSE org2,
                  head |-> IF idx > 0 THEN head2 - idx ELSE head2,
                  out  |-> r[2], raised |-> FALSE,
                  gone |-> (head - head1) + idx]

(***************************************************************************)
(* Wire format, as the device produces it                                  *)
(***************************************************************************)
\* packet[idx++] = (a >> 0) & 0xFF; ... : a signed 32-bit value, low byte first
Int32Bytes(x) ==
    <<x % 256, (x \div 256) % 256, (x \div 65536) % 256, (x \div 16777216) % 256>>

RECURSIVE XorAll(_)
XorAll(s) == IF s = <<>> THEN 0 ELSE BitXor(Head(s), XorAll(Tail(s)))

FrameBody(c, p) == <<Marker, PayloadLen>> \o Int32Bytes(c) \o Int32Bytes(p)

\* Start(0xAA) | Len(8) | Cuff(4) | Pulse(4) | Checksum
EncodeFrame(c, p) == Append(FrameBody(c, p), XorAll(FrameBody(c, p)))

\* the same frame with its checksum byte replaced by XOR-ing d into it (d # 0)
BadFrame(c, p, d) == Append(FrameBody(c, p), BitXor(XorAll(FrameBody(c, p)), d))

\* the 11 bytes of s from JS index p on are a frame of the wire format
WireFrameAt(s, p) ==
    /\ s[p + 1] = Marker
    /\ s[p + 2] = PayloadLen
    /\ s[p + FrameLen] = XorAll(SubSeq(s, p + 1, p + FrameLen - 1))

Zeros(n) == [i \in 1..n |-> 0]

(***************************************************************************)
(* Inputs                                                                  *)
(***************************************************************************)
MaxInt32 == 2147483647
MinInt32 == (0 - MaxInt32) - 1

\* raw values for the round trip
RoundTripInts == {0, 1, 0 - 1, 12050, 8025, 0 - 12050, 2500, 255, 256, 65536,
                  MaxInt32, MinInt32}

\* payloads for the frames of the structured inputs: plain ones, and one whose
\* bytes hold a marker and a length byte (567808 is 00 AA 08 00)
FramePayloads == {<<12050, 8025>>, <<0, 0>>, <<567808, 0>>, <<2184, 0 - 1>>}

\* garbage: no byte, plain bytes, stray markers, a marker with the length
\* byte, a frame with a wrong checksum, the first bytes of a frame
Garbage ==
    {<<>>, <<0>>, <<Marker>>, <<Marker, PayloadLen>>, <<Marker, Marker, PayloadLen, 1>>,
     <<7, Marker, 9>>, BadFrame(12050, 8025, 1),
     SubSeq(EncodeFrame(0, 0), 1, 10)}

GarbageFrameGarbage ==
    {pre \o EncodeFrame(f[1], f[2]) \o post :
        pre \in Garbage, post \in Garbage, f \in {<<12050, 8025>>, <<567808, 0>>}}

\* [marker, 8, payload1, badChecksum, marker, 8, payload2, goodChecksum]
ResyncInputs ==
    {BadFrame(a[1], a[2], d) \o EncodeFrame(b[1], b[2]) :
        a \in FramePayloads, b \in {<<12050, 8025>>, <<1, 0>>, <<2184, 0 - 1>>},
        d \in {1, 128, 255}}

RoundTripInputs == {EncodeFrame(c, p) : c \in RoundTripInts, p \in {8025, 0 - 1, MinInt32}}
                   \cup {EncodeFrame(c, p) : c \in {12050, MaxInt32}, p \in RoundTripInts}

FrameRuns ==
    {EncodeFrame(1, 2) \o EncodeFrame(3, 4) \o EncodeFrame(0 - 5, 6),
     EncodeFrame(567808, 0) \o EncodeFrame(567808, 0)}

\* inputs longer than the buffer
LongInputs ==
    {EncodeFrame(12050, 8025) \o Zeros(Capacity + 1),
     <<1, 2, 3, 4, 5>> \o EncodeFrame(12050, 8025) \o Zeros(Capacity - 11)
        \o EncodeFrame(2500, 0 - 1),
     EncodeFrame(1, 2) \o Zeros(Capacity - 22) \o EncodeFrame(3, 4)}

Inputs == GarbageFrameGarbage \cup ResyncInputs \cup RoundTripInputs
          \cup FrameRuns \cup LongInputs

\* chunk lengths tried at position f of an input of length total: every
\* length while the chunk ends within the first FineLimit bytes, the rest of
\* the input, and the lengths around the buffer capacity
FineLimit == 33

BigChunkLens == {Capacity - 5, Capacity, Capacity + 1}

ChunkLens(f, total) ==
    {n \in 0..(FineLimit - f) : f + n <= total}
    \cup {total - f}
    \cup {n \in BigChunkLens : f + n <= total}

(***************************************************************************)
(* The page (src/app.js): state, chartBuffer, animationFrameId, the charts *)
(* A chart is [labels, data, marker]: chart.data.labels,                   *)
(* chart.data.datasets[0].data and chart.data.datasets[1].data.            *)
(***************************************************************************)
DefaultThreshold == 25
MAX_POINTS == 3000
NoFrame == 0
FrameHandle == 1

\* the chart configuration of initCharts: empty labels and datasets
EmptyChart == [labels |-> <<>>, data |-> <<>>, marker |-> <<>>]

\* const state = { ... } of app.js
\* (startTime and timerInterval: TRUE for a value, FALSE for null)
AppState ==
    [isLogging |-> FALSE, isPaused |-> FALSE, isMonitoring |-> FALSE,
     monitoringThreshold |-> DefaultThreshold,
     startTime |-> FALSE, timerInterval |-> FALSE]

\* mutant: the pulse value is pushed only by the call that schedules the frame
RequestChartUpdate_PulseOnce(cb, frame, cuff, pulse) ==
    [chartBuffer |-> [cuff |-> Append(cb.cuff, cuff),
                      pulse |-> IF frame = NoFrame THEN Append(cb.pulse, pulse)
                                ELSE cb.pulse],
     animationFrameId |-> IF frame = NoFrame THEN FrameHandle ELSE frame,
     requested |-> IF frame = NoFrame THEN 1 ELSE 0]

\* mutant: a frame is requested on every call
RequestChartUpdate_Reschedules(cb, frame, cuff, pulse) ==
    [chartBuffer |-> [cuff |-> Append(cb.cuff, cuff), pulse |-> Append(cb.pulse, pulse)],
     animationFrameId |-> FrameHandle,
     requested |-> 1]

\* requestChartUpdate(cuff, pulse): the new chartBuffer and animationFrameId,
\* and the number of calls of requestAnimationFrame(renderLoop) it made
RequestChartUpdate(cb, frame, cuff, pulse) ==
    [chartBuffer |-> [cuff |-> Append(cb.cuff, cuff), pulse |-> Append(cb.pulse, pulse)],
     animationFrameId |-> IF frame = NoFrame THEN FrameHandle ELSE frame,
     requested |-> IF frame = NoFrame THEN 1 ELSE 0]

\* mutant: the threshold test is  cuff >= state.monitoringThreshold
Exceeds_OrEquals(cuff, threshold) == NumGE(cuff, threshold)

\* cuff > state.monitoringThreshold
Exceeds(cuff, threshold) == NumGT(cuff, threshold)

\* null in a marker dataset
Null == [num |-> 0, den |-> 0]

(***************************************************************************)
(* Logger (src/serial.js 213-276, src/unnamed/part_000 9-58).  A file      *)
(* handle and a stream are numbers from 1, NoHandle and NoStream are null. *)
(* A stream is [state, text]: state "open", "closing" or "closed", text    *)
(* the lines written, a line being the header or the row of one sample     *)
(* (its timestamp is not kept).  Logger.bytesWritten, which only feeds a   *)
(* readout, is not kept.                                                   *)
(***************************************************************************)
NoHandle == 0
NoStream == 0

\* new Logger()
NewLogger == [fileHandle |-> NoHandle, writable |-> NoStream, fileName |-> NoHandle]

\* "Timestamp,CuffPressure,PulsePressure\n"
HeaderLine == [kind |-> "header", cuff |-> Null, pulse |-> Null]

\* `${time},${cuff},${pulse}\n`
RowLine(d) == [kind |-> "row", cuff |-> d.cuff, pulse |-> d.pulse]

\* mutant: the data is put in front of what the file already holds
LoggerWrite_Prepends(lg, ss, lines) ==
    IF lg.writable = NoStream THEN ss
    ELSE IF ss[lg.writable].state = "open"
         THEN [ss EXCEPT ![lg.writable].text = lines \o @]
         ELSE ss

\* Logger.write(data): nothing without a stream; a stream that is closing
\* or closed rejects the write, and no caller awaits or catches that
LoggerWrite(lg, ss, lines) ==
    IF lg.writable = NoStream THEN ss
    ELSE IF ss[lg.writable].state = "open"
         THEN [ss EXCEPT ![lg.writable].text = @ \o lines]
         ELSE ss

\* mutant: a sample is logged only when it is also pushed to the chart
HandleSerialData_LogsPlotted(p, data) ==
    IF p.state.isPaused
    THEN p
    ELSE LET st == IF Exceeds(data.cuff, p.state.monitoringThreshold)
                   THEN [p.state EXCEPT !.isMonitoring = TRUE]
                   ELSE p.state
         IN  IF st.isMonitoring
             THEN LET r == RequestChartUpdate(p.chartBuffer, p.animationFrameId,
                                              data.cuff, data.pulse)
                  IN  [p EXCEPT !.state = st, !.chartBuffer = r.chartBuffer,
                                !.animationFrameId = r.animationFrameId,
                                     !.frames = @ + r.requested,
                                !.streams = IF p.state.isLogging
                                            THEN LoggerWrite(p.logger, p.streams,
                                                             <<RowLine(data)>>)
                                            ELSE p.streams]
             ELSE [p EXCEPT !.state = st]

\* mutant: the trigger re-arms when the cuff value is at or below the
\* threshold
HandleSerialData_Rearms(p, data) ==
    LET lp == IF p.state.isLogging
              THEN [p EXCEPT !.streams = LoggerWrite(p.logger, p.streams, <<RowLine(data)>>)]
              ELSE p
    IN  IF lp.state.isPaused
        THEN lp
        ELSE LET st == [lp.state EXCEPT !.isMonitoring =
                            Exceeds(data.cuff, lp.state.monitoringThreshold)]
             IN  IF st.isMonitoring
                 THEN LET r == RequestChartUpdate(lp.chartBuffer, lp.animationFrameId,
                                                  data.cuff, data.pulse)
                      IN  [lp EXCEPT !.state = st, !.chartBuffer = r.chartBuffer,
                                     !.animationFrameId = r.animationFrameId,
                                     !.frames = @ + r.requested]
                 ELSE [lp EXCEPT !.state = st]

\* handleSerialData(data) on p = [state, chartBuffer, animationFrameId,
\* logger, streams]
HandleSerialData(p, data) ==
    LET lp == IF p.state.isLogging
              THEN [p EXCEPT !.streams = LoggerWrite(p.logger, p.streams, <<RowLine(data)>>)]
              ELSE p
    IN  IF lp.state.isPaused
        THEN lp
        ELSE LET st == IF Exceeds(data.cuff, lp.state.monitoringThreshold)
                       THEN [lp.state EXCEPT !.isMonitoring = TRUE]
                       ELSE lp.state
             IN  IF st.isMonitoring
                 THEN LET r == RequestChartUpdate(lp.chartBuffer, lp.animationFrameId,
                                                  data.cuff, data.pulse)
                      IN  [lp EXCEPT !.state = st, !.chartBuffer = r.chartBuffer,
                                     !.animationFrameId = r.animationFrameId,
                                     !.frames = @ + r.requested]
                 ELSE [lp EXCEPT !.state = st]

\* the bulk push loop of updateChartBatch on one array
Push(arr, newValues) == arr \o newValues

\* mutant: the newest entries are removed
Splice_FromEnd(arr, removeCount) ==
    IF removeCount > 0 THEN SubSeq(arr, 1, Len(arr) - removeCount) ELSE arr

\* arr.splice(0, removeCount), for removeCount > 0 only
Splice(arr, removeCount) ==
    IF removeCount > 0 THEN SubSeq(arr, removeCount + 1, Len(arr)) ELSE arr

\* updateChartBatch(chart, newValues); the marker dataset is not shifted
UpdateChartBatch(chart, newValues) ==
    LET labels == Push(chart.labels, [i \in 1..Len(newValues) |-> ""])
        data   == Push(chart.data, newValues)
        removeCount == Len(labels) - MAX_POINTS
    IN  [labels |-> Splice(labels, removeCount),
         data   |-> Splice(data, removeCount),
         marker |-> chart.marker]

\* mutant: the render loop leaves the queue as it was
Detach_KeepsQueue(queue) == [batch |-> queue, rest |-> queue]

\* the render loop takes the whole queue and leaves a fresh empty array
\* (app.js: cuffData = chartBuffer.cuff ... chartBuffer.cuff = [];
\*  part_000: pendingData.splice(0, pendingData.length))
Detach(queue) == [batch |-> queue, rest |-> <<>>]

\* a.num / a.den > b.num / b.den, for the comparison pulseData[i] > maxVal
Greater(a, b) == a.num * b.den > b.num * a.den

\* the loop of the Find Max handler: the index (from 1) of the first entry
\* that no entry exceeds
MaxIdx(pulseData) ==
    CHOOSE i \in 1..Len(pulseData) :
        /\ \A j \in 1..Len(pulseData) : ~Greater(pulseData[j], pulseData[i])
        /\ \A j \in 1..(i - 1) : Greater(pulseData[i], pulseData[j])

\* new Array(n).fill(null) with arr[maxIdx] = val
MarkerData(n, maxIdx, val) == [i \in 1..n |-> IF i = maxIdx THEN val ELSE Null]

(***************************************************************************)
(* The bundled page (src/unnamed/part_000): state.pendingData,             *)
(* state.hasTriggered, globalDataPointCount; chart data are {x, y} points  *)
(***************************************************************************)
BundleThreshold == 20
BundleMAX_POINTS == 4000

\* const state = { ... } of part_000; hasTriggered is not a property of the
\* literal, so it reads as undefined (falsy) until the render loop sets it
BundleState == [isLogging |-> FALSE, pendingData |-> <<>>, hasTriggered |-> FALSE]

\* handleSerialData(data) of part_000 on p = [state, ...]
BundleHandleSerialData(p, data) ==
    [p EXCEPT !.state.pendingData = Append(@, data)]

\* for (const d of chunk) if (d.cuff >= 20.0) ...
ChunkTriggers(chunk) ==
    \E i \in 1..Len(chunk) : NumGE(chunk[i].cuff, BundleThreshold)

\* the points pushed for a chunk, x counting on from globalDataPointCount
CuffPoints(count, chunk) ==
    [i \in 1..Len(chunk) |-> [x |-> count + i, y |-> chunk[i].cuff]]

PulsePoints(count, chunk) ==
    [i \in 1..Len(chunk) |-> [x |-> count + i, y |-> chunk[i].pulse]]

(***************************************************************************)
(* onDataCallback is called once per packet found.  DeliverLoop is that    *)
(* sequence of calls for ds[i .. hi]; DeliverRange runs it half by half so *)
(* that the evaluation depth stays small for a long run of packets.        *)
(***************************************************************************)
DeliverBlock == 16

OnDataCallback(b, p, data) ==
    IF b = "app" THEN HandleSerialData(p, data) ELSE BundleHandleSerialData(p, data)

RECURSIVE DeliverLoop(_, _, _, _, _)
DeliverLoop(b, p, ds, i, hi) ==
    IF i > hi THEN p
    ELSE DeliverLoop(b, OnDataCallback(b, p, ds[i]), ds, i + 1, hi)

RECURSIVE DeliverRange(_, _, _, _, _)
DeliverRange(b, p, ds, lo, hi) ==
    IF hi - lo < DeliverBlock
    THEN DeliverLoop(b, p, ds, lo, hi)
    ELSE LET mid == (lo + hi) \div 2
             l   == DeliverRange(b, p, ds, lo, mid)
         IN  IF l.animationFrameId \in {NoFrame, FrameHandle}
             THEN DeliverRange(b, l, ds, mid + 1, hi)
             ELSE l

DeliverAll(b, p, ds) == DeliverRange(b, p, ds, 1, Len(ds))

\* the pairs (cuffs[i], pulses[i]) as samples
ZipSamples(cuffs, pulses) ==
    [i \in 1..(IF Len(cuffs) < Len(pulses) THEN Len(cuffs) ELSE Len(pulses)) |->
        [cuff |-> cuffs[i], pulse |-> pulses[i]]]

\* the pending queue of the page: chartBuffer (app.js), pendingData (part_000)
PendingOf(b, st, cb) ==
    IF b = "app" THEN ZipSamples(cb.cuff, cb.pulse) ELSE st.pendingData

(***************************************************************************)
(* The connection (SerialManager.connect, startReading, disconnect,        *)
(* disconnectFromHardware, write) and the handlers of the page that use    *)
(* it, as functions of the world w = [state, serial, device, readLoop,     *)
(* calls, logger, streams, ui, connLog, raisedOps, sent].                  *)
(*                                                                         *)
(* One action of a specification is one browser task with the microtasks   *)
(* it queues: a handler runs from an event or a settled promise up to its  *)
(* next await on a promise that the browser settles in a later task.  An   *)
(* await on a value that is already there (an async method that returned   *)
(* without waiting) continues in the same task.                            *)
(*                                                                         *)
(* The browser, as the Web Serial, Streams and File System Access          *)
(* specifications have it:                                                 *)
(*  - reader.cancel() on a reader whose lock was released rejects with a   *)
(*    TypeError; on a live reader it closes the stream, the pending read   *)
(*    resolves with done = true in the same task, and the promise of       *)
(*    cancel() resolves in a later task;                                   *)
(*  - port.close() rejects when the port is not open or one of its         *)
(*    streams is locked;                                                   *)
(*  - writable.getWriter() throws a TypeError when the stream is locked;   *)
(*  - port.writable is null unless the port is open;                       *)
(*  - close() of a file stream that is closing or closed rejects.          *)
(***************************************************************************)
\* new SerialManager(): port, reader, isReading
NewSerial == [port |-> "null", reader |-> "null", isReading |-> FALSE]

\* no SerialPort object yet
NoDevice ==
    [state |-> "none", readLock |-> FALSE, writeLock |-> FALSE,
     listening |-> 0, event |-> FALSE]

Raise(w, op) == [w EXCEPT !.raisedOps = @ \cup {op}]

Log(w, step) == [w EXCEPT !.connLog = Append(@, step)]

AddCall(w, c) == [w EXCEPT !.calls = Append(@, c)]

DropCall(w, i) ==
    [w EXCEPT !.calls = SubSeq(@, 1, i - 1) \o SubSeq(@, i + 1, Len(@))]

SetPc(w, i, pc) == [w EXCEPT !.calls[i].pc = pc]

\* Logger.stop() up to its await, then the rest of stopLogging when there is
\* nothing to wait for
StopLogging(w) ==
    IF w.logger.writable # NoStream
    THEN IF w.streams[w.logger.writable].state = "open"
         THEN AddCall([w EXCEPT !.streams[w.logger.writable].state = "closing"],
                      [op |-> "stopLogging", pc |-> "closing", arg |-> w.logger.writable])
         ELSE Raise(w, "stopLogging")
    ELSE [w EXCEPT !.logger.fileHandle = NoHandle, !.logger.fileName = NoHandle,
                   !.state.isLogging = FALSE]

\* stopLogging after  await this.writable.close()  of call i
StopLoggingResume(w, i) ==
    DropCall([w EXCEPT !.streams[w.calls[i].arg].state = "closed",
                       !.logger = NewLogger,
                       !.state.isLogging = FALSE], i)

\* mutant: the disconnect callback also re-arms the plot trigger
OnDisconnectCallback_Rearms(w) ==
    LET u == [w EXCEPT !.ui.connected = FALSE, !.ui.logEnabled = FALSE,
                       !.state = IF "isMonitoring" \in DOMAIN w.state
                                 THEN [w.state EXCEPT !.isMonitoring = FALSE]
                                 ELSE [w.state EXCEPT !.hasTriggered = FALSE]]
    IN  IF u.state.isLogging THEN StopLogging(u) ELSE u

\* serial.onDisconnectCallback (app.js 296-309, part_000 450-464)
OnDisconnectCallback(w) ==
    LET u == [w EXCEPT !.ui.connected = FALSE, !.ui.logEnabled = FALSE]
    IN  IF u.state.isLogging THEN StopLogging(u) ELSE u

\* the catch and finally blocks of startReading:  this.reader.releaseLock()
\* is a TypeError when disconnectFromHardware has set this.reader to null
LoopFinally(w) ==
    IF w.serial.reader = "null"
    THEN Raise([w EXCEPT !.readLoop = "crashed"], "startReading")
    ELSE Log([w EXCEPT !.readLoop = "ended", !.device.readLock = FALSE], "release")

\* disconnect() from  if (this.port)  on: call i (0 when disconnect() has
\* not waited yet) closes the port or, with no port, finishes at once
DisconnectPort(w, i) ==
    IF w.serial.port # "null"
    THEN IF w.device.state \notin {"opened", "lost"}
            \/ w.device.readLock \/ w.device.writeLock
         THEN Raise(IF i = 0 THEN w ELSE DropCall(w, i), "disconnect")
         ELSE LET c == Log([w EXCEPT !.device.state =
                                IF @ = "opened" THEN "closing" ELSE @], "close")
              IN  IF i = 0
                  THEN AddCall(c, [op |-> "disconnect", pc |-> "close", arg |-> 0])
                  ELSE SetPc(c, i, "close")
    ELSE LET d == IF i = 0 THEN w ELSE DropCall(w, i)
         IN  OnDisconnectCallback(Log([d EXCEPT !.serial.isReading = FALSE], "callback"))

\* mutant: disconnect() does not cancel the read before it closes the port
Disconnect_NoCancel(w) == DisconnectPort(w, 0)

\* disconnect() up to its first await
Disconnect(w) ==
    IF w.serial.reader # "null"
    THEN IF w.readLoop = "reading"
         THEN AddCall(LoopFinally(Log(w, "cancel")),
                      [op |-> "disconnect", pc |-> "cancel", arg |-> 0])
         ELSE Raise(w, "disconnect")
    ELSE DisconnectPort(w, 0)

\* disconnect() after  await this.port.close()  of call i
DisconnectClosed(w, i) ==
    LET c == Log([w EXCEPT !.device.state = IF @ = "closing" THEN "closed" ELSE @,
                           !.serial.port = "null",
                           !.serial.isReading = FALSE], "closed")
    IN  OnDisconnectCallback(Log(DropCall(c, i), "callback"))

\* disconnectFromHardware(), run by the port's 'disconnect' event
DisconnectFromHardware(w) ==
    LET c == OnDisconnectCallback(Log(w, "hwcallback"))
    IN  [c EXCEPT !.serial.port = "null", !.serial.reader = "null",
                  !.device.event = FALSE]

\* connect() up to  await navigator.serial.requestPort()
Connect(w) == AddCall(w, [op |-> "connect", pc |-> "choosing", arg |-> 0])

\* connect(): the user chose the device; this.port is set and open() called.
\* The browser hands out the same SerialPort object for the same device, so
\* the listeners of earlier connections are still on it.
ConnectChosen(w, i) ==
    SetPc([w EXCEPT !.serial.port = "port",
                    !.device = [NoDevice EXCEPT !.state = "chosen",
                                                !.listening = w.device.listening]],
          i, "opening")

\* connect(): requestPort() rejected; the catch block returns success: false,
\* and the click handler only reports it
ConnectNotChosen(w, i) == DropCall(w, i)

\* connect(): open() rejected; this.port keeps the port that did not open
ConnectNotOpened(w, i) == DropCall([w EXCEPT !.device.state = "closed"], i)

\* connect() after  await this.port.open(): startReading() up to its first
\* read, the 'disconnect' listener, and the click handler's success branch
ConnectOpened(w, i) ==
    DropCall(Log([w EXCEPT !.device.state = "opened",
                           !.device.readLock = TRUE,
                           !.device.listening = @ + 1,
                           !.serial.isReading = TRUE,
                           !.serial.reader = "reader",
                           !.readLoop = "reading",
                           !.connLog = <<>>,
                           !.ui.connected = TRUE,
                           !.ui.logEnabled = TRUE], "open"), i)

\* btnConnect click
ConnectClicked(w) == IF w.serial.port # "null" THEN Disconnect(w) ELSE Connect(w)

\* the 'disconnect' event: every listener added by connect() runs
RECURSIVE DisconnectEvent(_, _)
DisconnectEvent(w, n) ==
    IF n = 0 THEN [w EXCEPT !.device.event = FALSE]
    ELSE DisconnectEvent(DisconnectFromHardware(w), n - 1)

\* the commands of app.js: Start, Abort, Linear
StartByte == 1
AbortByte == 2
LinearByte == 3
CommandByte(op) ==
    IF op = "start" THEN StartByte ELSE IF op = "abort" THEN AbortByte ELSE LinearByte

LinearThreshold == 250

\* startTimer() / stopTimer()
StartTimer(st) == [st EXCEPT !.startTime = TRUE, !.timerInterval = TRUE]
StopTimer(st) == [st EXCEPT !.startTime = FALSE, !.timerInterval = FALSE]

\* resetSessionUI() on state (the markers are cleared by the click action)
ResetSessionUI(st) == [st EXCEPT !.isPaused = FALSE]

\* a command handler after  await serial.write(...)
CommandDone(w, op) ==
    IF op = "start"
    THEN [w EXCEPT !.state = StartTimer([@ EXCEPT !.monitoringThreshold = DefaultThreshold])]
    ELSE IF op = "linear"
    THEN [w EXCEPT !.state = StartTimer([@ EXCEPT !.monitoringThreshold = LinearThreshold])]
    ELSE LET a == [w EXCEPT !.state = StopTimer(@)]
         IN  IF a.state.isLogging THEN StopLogging(a) ELSE a

\* port.writable is a stream
Writable(w) == w.device.state \in {"opened", "lost"}

\* serial.write(data) called by the handler of op, up to  await writer.write
Write(w, op) ==
    IF w.serial.port = "null" \/ ~Writable(w)
    THEN CommandDone(w, op)
    ELSE IF w.device.writeLock
         THEN Raise(Raise(w, "write"), op)
         ELSE AddCall([w EXCEPT !.device.writeLock = TRUE],
                      [op |-> op, pc |-> "write", arg |-> CommandByte(op)])

\* write() after  await writer.write(data): true or false, the lock released,
\* and the handler goes on
WriteSettled(w, i) ==
    LET ok == w.device.state = "opened"
        r  == [w EXCEPT !.device.writeLock = FALSE,
                        !.sent = IF ok THEN Append(@, w.calls[i].arg) ELSE @]
    IN  CommandDone(DropCall(r, i), w.calls[i].op)

\* btnStart, btnAbort, btnLinear click
CommandClicked(w, op) ==
    IF w.serial.port # "null"
    THEN Write(IF op = "abort" THEN w ELSE [w EXCEPT !.state = ResetSessionUI(@)], op)
    ELSE w

\* startLogging() up to  await showSaveFilePicker  in selectFile
StartLogging(w) == AddCall(w, [op |-> "startLogging", pc |-> "picking", arg |-> 0])

SomeHandle == 1

\* Logger.start(): false when no file is selected
LoggerStart(lg) == lg.fileHandle # NoHandle

\* selectFile() returned true; then logger.start() up to  await
\* createWritable(), or, had start() returned false, on to the header write
StartLoggingSelected(w, i) ==
    LET f == [w EXCEPT !.logger.fileHandle = SomeHandle,
                       !.logger.fileName = SomeHandle]
    IN  IF LoggerStart(f.logger)
        THEN SetPc(f, i, "creating")
        ELSE SetPc([f EXCEPT !.streams = LoggerWrite(f.logger, @, <<HeaderLine>>)],
                   i, "header")

\* mutant: startLogging goes on although no file was selected
StartLoggingNotSelected_GoesOn(w, i) ==
    SetPc([w EXCEPT !.streams = LoggerWrite(w.logger, @, <<HeaderLine>>)], i, "header")

\* selectFile() returned false: startLogging does nothing more
StartLoggingNotSelected(w, i) == DropCall(w, i)

\* createWritable() resolved: this.writable is the new stream, start() returns
\* true and the header is written
StartLoggingCreated(w, i) ==
    LET k == Len(w.streams) + 1
        c == [w EXCEPT !.streams = Append(@, [state |-> "open", text |-> <<>>]),
                       !.logger.writable = k]
    IN  SetPc([c EXCEPT !.streams = LoggerWrite(c.logger, @, <<HeaderLine>>)],
              i, "header")

\* createWritable() rejected: start() and startLogging() reject
StartLoggingNotCreated(w, i) == Raise(DropCall(w, i), "startLogging")

\* startLogging() after  await logger.write(header)
StartLoggingDone(w, i) == DropCall([w EXCEPT !.state.isLogging = TRUE], i)

\* btnLog click
LogClicked(w) == IF w.state.isLogging THEN StopLogging(w) ELSE StartLogging(w)

(***************************************************************************)
(* Sample sources for the page specifications                              *)
(***************************************************************************)
Builds == {"app", "bundle"}

\* the k-th sample delivered: its pulse value identifies it
SampleOf(c, k) ==
    [cuff |-> DivBy100(c), pulse |-> DivBy100((k * 37501) % 100003)]

\* raw cuff values around the two trigger levels (20.00 and 25.00)
CuffRaws == {1900, 2000, 2500, 2600}

\* a run of n packets after n0 delivered ones, cuff between 15.00 and 26.99
Burst(n0, n) ==
    [i \in 1..n |-> SampleOf(1500 + (((n0 + i) * 7) % 1200), n0 + i)]

MaxSamples == 4
MaxBursts == 2

\* run lengths: one packet, the packets of one full read chunk, and runs
\* longer than each history limit (no animation frame runs while the tab is
\* in the background)
BurstLens == {1, Capacity \div FrameLen, MAX_POINTS + 1, BundleMAX_POINTS + 1}

(***************************************************************************)
(* Initial states                                                          *)
(***************************************************************************)
\* new SerialManager(): constructor
InitDecoder ==
    /\ fed = 0
    /\ rxBuffer = <<>>
    /\ rxOrigin = <<>>
    /\ rxHead = 0
    /\ emitted = <<>>
    /\ consumed = 0
    /\ raised = FALSE
    /\ resetAt = <<>>

\* the page after load: state literal, initCharts, empty buffers
InitPage(b) ==
    /\ build = b
    /\ state = IF b = "app" THEN AppState ELSE BundleState
    /\ chartBuffer = [cuff |-> <<>>, pulse |-> <<>>]
    /\ animationFrameId = NoFrame
    /\ frames = 0
    /\ globalDataPointCount = 0
    /\ cuffChart = EmptyChart
    /\ pulseChart = EmptyChart
    /\ nDelivered = 0
    /\ nDeliveries = 0
    /\ delivered = <<>>
    /\ pushed = <<>>
    /\ batches = <<>>
    /\ appended = <<>>
    /\ lastFlush = [due |-> <<>>, taken |-> <<>>]
    /\ lastOp = "load"

\* the connection, the logger and the page state, as the handlers see them
World ==
    [state |-> state, serial |-> serial, device |-> device, readLoop |-> readLoop,
     calls |-> calls, logger |-> logger, streams |-> streams, ui |-> ui,
     connLog |-> connLog, raisedOps |-> raisedOps, sent |-> sent]

SetWorld(w) ==
    /\ state' = w.state
    /\ serial' = w.serial
    /\ device' = w.device
    /\ readLoop' = w.readLoop
    /\ calls' = w.calls
    /\ logger' = w.logger
    /\ streams' = w.streams
    /\ ui' = w.ui
    /\ connLog' = w.connLog
    /\ raisedOps' = w.raisedOps
    /\ sent' = w.sent

\* new SerialManager(), new Logger(); nothing requested yet.  Whether the
\* Log button starts out disabled is set by the page's markup.
InitSession ==
    /\ serial = NewSerial
    /\ device = NoDevice
    /\ readLoop = "none"
    /\ calls = <<>>
    /\ logger = NewLogger
    /\ streams = <<>>
    /\ ui \in [connected : {FALSE}, logEnabled : BOOLEAN]
    /\ connLog = <<>>
    /\ raisedOps = {}
    /\ sent = <<>>

\* a connection that connect() has just established
InitConnected ==
    /\ serial = [port |-> "port", reader |-> "reader", isReading |-> TRUE]
    /\ device = [NoDevice EXCEPT !.state = "opened", !.readLock = TRUE, !.listening = 1]
    /\ readLoop = "reading"
    /\ calls = <<>>
    /\ logger = NewLogger
    /\ streams = <<>>
    /\ ui = [connected |-> TRUE, logEnabled |-> TRUE]
    /\ connLog = <<"open">>
    /\ raisedOps = {}
    /\ sent = <<>>

(***************************************************************************)
(* Handlers                                                                *)
(***************************************************************************)
\* onDataCallback called for each of the samples ds, in order
OnData(ds) ==
    LET p == [state |-> state, chartBuffer |-> chartBuffer,
              animationFrameId |-> animationFrameId, frames |-> frames,
              logger |-> logger, streams |-> streams]
        paused == IF build = "app" THEN state.isPaused ELSE FALSE
        thr == IF build = "app" THEN state.monitoringThreshold ELSE BundleThreshold
    IN  \E q \in {DeliverAll(build, p, ds)} :
        \E before \in {PendingOf(build, state, chartBuffer)} :
        \E after \in {PendingOf(build, q.state, q.chartBuffer)} :
        /\ state' = q.state
        /\ chartBuffer' = q.chartBuffer
        /\ animationFrameId' = q.animationFrameId
        /\ frames' = q.frames
        /\ streams' = q.streams
        /\ UNCHANGED <<build, globalDataPointCount, cuffChart, pulseChart>>
        /\ UNCHANGED <<logger, budget>>
        /\ nDelivered' = nDelivered + Len(ds)
        /\ nDeliveries' = IF ds = <<>> THEN nDeliveries ELSE nDeliveries + 1
        /\ delivered' = delivered \o
               [i \in 1..Len(ds) |-> [sample |-> ds[i], paused |-> paused, thr |-> thr]]
        /\ pushed' = pushed \o SubSeq(after, Len(before) + 1, Len(after))
        /\ UNCHANGED <<batches, appended, lastFlush>>
        /\ lastOp' = IF ds = <<>> THEN "read" ELSE "data"

\* reader.read() resolved with the next n bytes; startReading passes them to
\* processIncomingChunk, which calls onDataCallback for each packet found
Ingest(n) ==
    LET chunk    == SubSeq(input, fed + 1, fed + n)
        chunkOrg == [i \in 1..n |-> fed + i]
    IN  /\ readLoop = "reading"
        /\ device.state = "opened"
        /\ \E r \in {ProcessIncomingChunk(rxBuffer, rxOrigin, rxHead, chunk, chunkOrg)} :
           /\ fed' = fed + n
           /\ rxBuffer' = r.buf
           /\ rxOrigin' = r.org
           /\ rxHead' = r.head
           /\ emitted' = emitted \o r.out
           /\ consumed' = consumed + r.gone
           /\ raised' = (raised \/ r.raised)
           /\ resetAt' = IF OverflowReset(rxHead, n)
                         THEN Append(resetAt, [at |-> fed + 1, dropped |-> rxHead])
                         ELSE resetAt
           /\ UNCHANGED input
           /\ OnData([i \in 1..Len(r.out) |-> r.out[i].sample])
           /\ \E w \in {IF r.raised THEN LoopFinally(World) ELSE World} :
                 /\ readLoop' = w.readLoop
                 /\ device' = w.device
                 /\ connLog' = w.connLog
                 /\ raisedOps' = w.raisedOps
           /\ UNCHANGED <<serial, calls, ui, sent>>

\* packets reach handleSerialData with no other handler running in between
Deliver(ds) ==
    /\ OnData(ds)
    /\ UNCHANGED decoderVars
    /\ UNCHANGED connVars

\* app.js renderLoop, run by the animation frame that requestChartUpdate
\* scheduled
RenderLoop ==
    /\ build = "app"
    /\ frames > 0
    /\ frames' = frames - 1
    /\ animationFrameId' = NoFrame
    /\ \E cuffData \in {Detach(chartBuffer.cuff)} :
       \E pulseData \in {Detach(chartBuffer.pulse)} :
          /\ IF Len(cuffData.batch) = 0
             THEN /\ UNCHANGED <<chartBuffer, cuffChart, pulseChart>>
                  /\ UNCHANGED <<batches, appended>>
                  /\ lastFlush' = [due |-> ZipSamples(chartBuffer.cuff, chartBuffer.pulse),
                                   taken |-> <<>>]
             ELSE \E taken \in {ZipSamples(cuffData.batch, pulseData.batch)} :
                  /\ cuffChart' = UpdateChartBatch(cuffChart, cuffData.batch)
                  /\ pulseChart' = UpdateChartBatch(pulseChart, pulseData.batch)
                  /\ chartBuffer' = [cuff |-> cuffData.rest, pulse |-> pulseData.rest]
                  /\ batches' = Append(batches, taken)
                  /\ appended' = appended \o taken
                  /\ lastFlush' = [due |-> ZipSamples(chartBuffer.cuff, chartBuffer.pulse),
                                   taken |-> taken]
    /\ lastOp' = "renderLoop"
    /\ UNCHANGED <<build, state, globalDataPointCount>>
    /\ UNCHANGED <<nDelivered, nDeliveries, delivered, pushed>>
    /\ UNCHANGED decoderVars
    /\ UNCHANGED <<connVars, logVars, budget>>

\* part_000 renderLoop: runs on every animation frame
BundleRenderLoop ==
    /\ build = "bundle"
    /\ IF Len(state.pendingData) > 0
       THEN \E d \in {Detach(state.pendingData)} :
            \E trig \in {state.hasTriggered \/ ChunkTriggers(d.batch)} :
               /\ streams' = IF state.isLogging
                             THEN LoggerWrite(logger, streams,
                                      [i \in 1..Len(d.batch) |-> RowLine(d.batch[i])])
                             ELSE streams
               /\ state' = [state EXCEPT !.pendingData = d.rest, !.hasTriggered = trig]
               /\ IF trig
                  THEN \E cuffArr \in {Push(cuffChart.data,
                                            CuffPoints(globalDataPointCount, d.batch))} :
                       \E pulseArr \in {Push(pulseChart.data,
                                             PulsePoints(globalDataPointCount, d.batch))} :
                       \E removeCount \in {Len(cuffArr) - BundleMAX_POINTS} :
                          /\ globalDataPointCount' = globalDataPointCount + Len(d.batch)
                          /\ cuffChart' = [cuffChart EXCEPT !.data = Splice(cuffArr, removeCount)]
                          /\ pulseChart' = [pulseChart EXCEPT !.data = Splice(pulseArr, removeCount)]
                          /\ appended' = appended \o d.batch
                  ELSE UNCHANGED <<globalDataPointCount, cuffChart, pulseChart, appended>>
               /\ batches' = Append(batches, d.batch)
               /\ lastFlush' = [due |-> state.pendingData, taken |-> d.batch]
       ELSE /\ UNCHANGED <<state, globalDataPointCount, cuffChart, pulseChart>>
            /\ UNCHANGED <<batches, appended, streams>>
            /\ lastFlush' = [due |-> <<>>, taken |-> <<>>]
    /\ lastOp' = "renderLoop"
    /\ UNCHANGED <<build, chartBuffer, animationFrameId, frames>>
    /\ UNCHANGED <<nDelivered, nDeliveries, delivered, pushed>>
    /\ UNCHANGED decoderVars
    /\ UNCHANGED <<connVars, logger, budget>>

\* mutant: Clear Graphs leaves the pending chart buffer as it is
ClearGraphs_KeepsPending ==
    /\ build = "app"
    /\ cuffChart' = EmptyChart
    /\ pulseChart' = EmptyChart
    /\ state' = [state EXCEPT !.isMonitoring = FALSE]
    /\ UNCHANGED chartBuffer
    /\ delivered' = <<>>
    /\ pushed' = <<>>
    /\ batches' = <<>>
    /\ appended' = <<>>
    /\ lastOp' = "clear"
    /\ UNCHANGED <<build, animationFrameId, frames, globalDataPointCount>>
    /\ UNCHANGED <<nDelivered, nDeliveries, lastFlush>>
    /\ UNCHANGED decoderVars
    /\ UNCHANGED <<connVars, logVars>>

\* app.js btnClearGraphs click: the scheduled frame, if any, is not cancelled
ClearGraphs ==
    /\ build = "app"
    /\ cuffChart' = EmptyChart
    /\ pulseChart' = EmptyChart
    /\ state' = [state EXCEPT !.isMonitoring = FALSE]
    /\ chartBuffer' = [cuff |-> <<>>, pulse |-> <<>>]
    /\ delivered' = <<>>
    /\ pushed' = <<>>
    /\ batches' = <<>>
    /\ appended' = <<>>
    /\ lastOp' = "clear"
    /\ UNCHANGED <<build, animationFrameId, frames, globalDataPointCount>>
    /\ UNCHANGED <<nDelivered, nDeliveries, lastFlush>>
    /\ UNCHANGED decoderVars
    /\ UNCHANGED <<connVars, logVars>>

\* part_000 btnClearGraphs click: state.pendingData is left as it is
BundleClearGraphs ==
    /\ build = "bundle"
    /\ globalDataPointCount' = 0
    /\ state' = [state EXCEPT !.hasTriggered = FALSE]
    /\ cuffChart' = [cuffChart EXCEPT !.data = <<>>]
    /\ pulseChart' = [pulseChart EXCEPT !.data = <<>>]
    /\ delivered' = [i \in 1..Len(state.pendingData) |->
                        [sample |-> state.pendingData[i], paused |-> FALSE,
                         thr |-> BundleThreshold]]
    /\ pushed' = state.pendingData
    /\ batches' = <<>>
    /\ appended' = <<>>
    /\ lastOp' = "clear"
    /\ UNCHANGED <<build, chartBuffer, animationFrameId, frames>>
    /\ UNCHANGED <<nDelivered, nDeliveries, lastFlush>>
    /\ UNCHANGED decoderVars
    /\ UNCHANGED <<connVars, logVars>>

\* app.js btnFindMax click: resume when paused, else pause and mark the
\* first maximum of the plotted pulse series
FindMax ==
    /\ build = "app"
    /\ IF state.isPaused
       THEN /\ state' = [state EXCEPT !.isPaused = FALSE]
            /\ cuffChart' = [cuffChart EXCEPT !.marker = <<>>]
            /\ pulseChart' = [pulseChart EXCEPT !.marker = <<>>]
       ELSE /\ state' = [state EXCEPT !.isPaused = TRUE]
            /\ IF Len(pulseChart.data) = 0
               THEN UNCHANGED <<cuffChart, pulseChart>>
               ELSE \E maxIdx \in {MaxIdx(pulseChart.data)} :
                    /\ pulseChart' = [pulseChart EXCEPT !.marker =
                           MarkerData(Len(pulseChart.data), maxIdx, pulseChart.data[maxIdx])]
                    /\ cuffChart' = [cuffChart EXCEPT !.marker =
                           MarkerData(Len(cuffChart.data), maxIdx, cuffChart.data[maxIdx])]
    /\ lastOp' = "findMax"
    /\ UNCHANGED <<build, chartBuffer, animationFrameId, frames,
                   globalDataPointCount>>
    /\ UNCHANGED <<nDelivered, nDeliveries, delivered, pushed, batches, appended,
                   lastFlush>>
    /\ UNCHANGED decoderVars
    /\ UNCHANGED <<connVars, logVars>>

(***************************************************************************)
(* Handlers of the connection, the commands and the log                    *)
(***************************************************************************)
\* what a handler that works on World leaves alone
PageRest ==
    /\ UNCHANGED <<build, chartBuffer, animationFrameId, frames,
                   globalDataPointCount>>
    /\ UNCHANGED <<nDelivered, nDeliveries, delivered, pushed, batches, appended,
                   lastFlush>>
    /\ UNCHANGED decoderVars

Step(w, op) ==
    /\ SetWorld(w)
    /\ PageRest
    /\ UNCHANGED <<cuffChart, pulseChart>>
    /\ lastOp' = op

\* a device chooser or a file picker is showing: the page takes no clicks
ModalOpen == \E i \in 1..Len(calls) : calls[i].pc \in {"choosing", "picking"}

\* a click or a device event of the bounded run
Spend ==
    /\ budget > 0
    /\ budget' = budget - 1

At_(op, pc, i) == calls[i].op = op /\ calls[i].pc = pc

\* btnConnect click (app.js 234-273, part_000 390-427)
ConnectClick ==
    /\ ~ModalOpen
    /\ Spend
    /\ Step(ConnectClicked(World),
            IF serial.port # "null" THEN "disconnect" ELSE "connect")

\* requestPort() resolved.  The chooser takes the user longer than the read
\* of a lost port takes to fail.
PortChosen ==
    \E i \in 1..Len(calls) :
        /\ At_("connect", "choosing", i)
        /\ readLoop # "reading"
        /\ Step(ConnectChosen(World, i), "chosen")
        /\ UNCHANGED budget

\* requestPort() rejected: the user closed the chooser
ChooserCancelled ==
    \E i \in 1..Len(calls) :
        /\ At_("connect", "choosing", i)
        /\ Step(ConnectNotChosen(World, i), "notChosen")
        /\ UNCHANGED budget

\* port.open() resolved
OpenResolved ==
    \E i \in 1..Len(calls) :
        /\ At_("connect", "opening", i)
        /\ Step(ConnectOpened(World, i), "connected")
        /\ UNCHANGED budget

\* port.open() rejected
OpenRejected ==
    \E i \in 1..Len(calls) :
        /\ At_("connect", "opening", i)
        /\ Step(ConnectNotOpened(World, i), "notOpened")
        /\ UNCHANGED budget

\* the lengths of the reads of a session
ReadLens(f, total) == {n \in {4, FrameLen - 4, FrameLen} : f + n <= total}

\* reader.read() resolved with data
ReadChunk == \E n \in ReadLens(fed, Len(input)) : Ingest(n)

\* reader.read() rejected while the port is open (a framing, parity or
\* overrun error, a break, a full buffer)
ReadError ==
    /\ readLoop = "reading"
    /\ device.state = "opened"
    /\ Spend
    /\ Step(LoopFinally(World), "readError")

\* the device is unplugged: the port is lost, its 'disconnect' event and the
\* failure of its streams are on their way
Unplug ==
    /\ device.state = "opened"
    /\ Spend
    /\ Step([World EXCEPT !.device.state = "lost",
                          !.device.event = (device.listening > 0)], "unplug")

\* reader.read() rejected because the port is lost
StreamErrors ==
    /\ device.state = "lost"
    /\ readLoop = "reading"
    /\ Step(LoopFinally(World), "streamError")
    /\ UNCHANGED budget

\* the port's 'disconnect' event
HardwareDisconnect ==
    /\ device.event
    /\ Step(DisconnectEvent(World, device.listening), "hwDisconnect")
    /\ UNCHANGED budget

\* reader.cancel() resolved
CancelResolved ==
    \E i \in 1..Len(calls) :
        /\ At_("disconnect", "cancel", i)
        /\ Step(DisconnectPort(World, i), "cancelled")
        /\ UNCHANGED budget

\* port.close() resolved
CloseResolved ==
    \E i \in 1..Len(calls) :
        /\ At_("disconnect", "close", i)
        /\ Step(DisconnectClosed(World, i), "disconnected")
        /\ UNCHANGED budget

\* port.close() rejected: the port was lost
CloseRejected ==
    \E i \in 1..Len(calls) :
        /\ At_("disconnect", "close", i)
        /\ device.state = "lost"
        /\ Step(Raise(DropCall(World, i), "disconnect"), "closeRejected")
        /\ UNCHANGED budget

\* btnStart, btnAbort or btnLinear click (app.js 407-450); resetSessionUI
\* clears the markers of a paused page
CommandClick(op) ==
    /\ build = "app"
    /\ ~ModalOpen
    /\ Spend
    /\ SetWorld(CommandClicked(World, op))
    /\ PageRest
    /\ IF op # "abort" /\ serial.port # "null" /\ state.isPaused
       THEN /\ cuffChart' = [cuffChart EXCEPT !.marker = <<>>]
            /\ pulseChart' = [pulseChart EXCEPT !.marker = <<>>]
       ELSE UNCHANGED <<cuffChart, pulseChart>>
    /\ lastOp' = op

StartClick == CommandClick("start")

AbortClick == CommandClick("abort")

LinearClick == CommandClick("linear")

\* writer.write() settled
WriteDone ==
    \E i \in 1..Len(calls) :
        /\ calls[i].pc = "write"
        /\ Step(WriteSettled(World, i),
                IF calls[i].op = "start" THEN "startDone"
                ELSE IF calls[i].op = "linear" THEN "linearDone" ELSE "abortDone")
        /\ UNCHANGED budget

\* btnLog click (app.js 314-320, part_000 484-490)
LogClick ==
    /\ ui.logEnabled
    /\ ~ModalOpen
    /\ Spend
    /\ Step(LogClicked(World), "log")

\* showSaveFilePicker() resolved
PickerResolved ==
    \E i \in 1..Len(calls) :
        /\ At_("startLogging", "picking", i)
        /\ Step(StartLoggingSelected(World, i), "selected")
        /\ UNCHANGED budget

\* showSaveFilePicker() rejected: cancelled, or the file cannot be used
PickerRejected ==
    \E i \in 1..Len(calls) :
        /\ At_("startLogging", "picking", i)
        /\ Step(StartLoggingNotSelected(World, i), "notSelected")
        /\ UNCHANGED budget

\* createWritable() resolved
CreateResolved ==
    \E i \in 1..Len(calls) :
        /\ At_("startLogging", "creating", i)
        /\ Step(StartLoggingCreated(World, i), "created")
        /\ UNCHANGED budget

\* createWritable() rejected
CreateRejected ==
    \E i \in 1..Len(calls) :
        /\ At_("startLogging", "creating", i)
        /\ Step(StartLoggingNotCreated(World, i), "notCreated")
        /\ UNCHANGED budget

\* the write of the header resolved
HeaderWritten ==
    \E i \in 1..Len(calls) :
        /\ At_("startLogging", "header", i)
        /\ Step(StartLoggingDone(World, i), "logging")
        /\ UNCHANGED budget

\* the close of the log file resolved
LogClosed ==
    \E i \in 1..Len(calls) :
        /\ At_("stopLogging", "closing", i)
        /\ Step(StopLoggingResume(World, i), "logClosed")
        /\ UNCHANGED budget

(***************************************************************************)
(* Decoder specification: the byte stream of one connection, chunked in    *)
(* every way, decoded and handed to the page of app.js                     *)
(***************************************************************************)
Init ==
    /\ input \in Inputs
    /\ InitDecoder
    /\ InitPage("app")
    /\ InitConnected
    /\ budget = 0

Next == \E n \in ChunkLens(fed, Len(input)) : Ingest(n)

Spec == Init /\ [][Next]_vars

(***************************************************************************)
(* Page specification: samples arrive one at a time, interleaved with      *)
(* animation frames and button clicks, on either page                      *)
(***************************************************************************)
InitUI ==
    /\ input = <<>>
    /\ InitDecoder
    /\ \E b \in Builds : InitPage(b)
    /\ InitConnected
    /\ budget = 0

NextUI ==
    \/ \E c \in CuffRaws :
          /\ nDeliveries < MaxSamples
          /\ Deliver(<<SampleOf(c, nDelivered + 1)>>)
    \/ RenderLoop
    \/ BundleRenderLoop
    \/ (ClearGraphs /\ UNCHANGED budget)
    \/ (BundleClearGraphs /\ UNCHANGED budget)
    \/ (FindMax /\ UNCHANGED budget)

SpecUI == InitUI /\ [][NextUI]_vars

(***************************************************************************)
(* Render specification: the page of app.js with a host that runs the      *)
(* callbacks it holds (a callback passed to requestAnimationFrame is run   *)
(* before the next repaint); samples below and above the threshold         *)
(***************************************************************************)
InitRender == InitUI /\ build = "app"

NextRender ==
    \/ \E c \in {1900, 2600} :
          /\ nDeliveries < MaxSamples
          /\ Deliver(<<SampleOf(c, nDelivered + 1)>>)
    \/ RenderLoop
    \/ (ClearGraphs /\ UNCHANGED budget)
    \/ (FindMax /\ UNCHANGED budget)

SpecRender == InitRender /\ [][NextRender]_vars /\ WF_vars(RenderLoop)

(***************************************************************************)
(* History-limit specification: samples arrive in runs long enough to      *)
(* exceed MAX_POINTS, on either page                                       *)
(***************************************************************************)
NextCap ==
    \/ \E n \in BurstLens :
          /\ nDeliveries < MaxBursts
          /\ Deliver(Burst(nDelivered, n))
    \/ RenderLoop
    \/ BundleRenderLoop
    \/ (ClearGraphs /\ UNCHANGED budget)
    \/ (BundleClearGraphs /\ UNCHANGED budget)

SpecCap == InitUI /\ [][NextCap]_vars

(***************************************************************************)
(* Properties of the decoder                                               *)
(***************************************************************************)
Samples(ds) == [i \in 1..Len(ds) |-> ds[i].sample]

Stream == SubSeq(input, 1, fed)

\* what a fresh decoder delivers when it gets the bytes s as a single chunk
OneChunkSamples(s) ==
    Samples(ProcessIncomingChunk(<<>>, <<>>, 0, s, [i \in 1..Len(s) |-> i]).out)

\* C1: for every byte sequence and every splitting of it into chunks, the
\* samples delivered chunk by chunk are the samples a fresh decoder delivers
\* for the whole sequence as one chunk.
C1_ChunkingInvariance == Samples(emitted) = OneChunkSamples(Stream)

\* C2: processIncomingChunk never raises, whatever the chunk and the buffer
\* state.
C2_NeverRaises == raised = FALSE

\* C3: after a chunk with rxHead + chunk.length > capacity, every byte still
\* buffered comes from that chunk or a later one, and no delivered sample was
\* decoded from a window that holds bytes from before the reset and bytes of
\* the resetting chunk.
C3_OverflowReset ==
    \A k \in 1..Len(resetAt) :
        /\ \A i \in 1..Len(rxOrigin) : rxOrigin[i] >= resetAt[k].at
        /\ \A j \in 1..Len(emitted) :
              ~(emitted[j].first < resetAt[k].at /\ emitted[j].last >= resetAt[k].at)

\* a reset dropped buffered bytes and a sample was then decoded from the
\* chunk that caused it
C3_Witness ==
    \E k \in 1..Len(resetAt) :
        /\ resetAt[k].dropped > 0
        /\ \E j \in 1..Len(emitted) : emitted[j].first >= resetAt[k].at

\* the only packet window of s that starts outside [p, p + 11) is none: s is
\* garbage, the frame at JS index p, garbage
GarbageFrameGarbageAt(s, p) ==
    /\ p + FrameLen <= Len(s)
    /\ WireFrameAt(s, p)
    /\ \A q \in 0..(Len(s) - FrameLen) :
          (q < p \/ q >= p + FrameLen) => ~WireFrameAt(s, q)

FrameDelivery(s, p) ==
    [sample |-> ParsePacket(s, p), first |-> p + 1, last |-> p + FrameLen]

\* C4 as stated: for an input garbage, frame, garbage the frame's sample is
\* delivered exactly once, from the frame's position (as soon as the frame's
\* last byte was delivered), and nothing else is.  Stated for the runs in
\* which no call threw.
C4_EmbeddedFrameAnyChunks ==
    ~raised =>
        \A p \in 0..(Len(input) - FrameLen) :
            GarbageFrameGarbageAt(input, p) =>
                emitted = IF fed >= p + FrameLen THEN <<FrameDelivery(input, p)>> ELSE <<>>

\* C4 amended: the same, as long as no chunk has triggered the overflow reset.
C4_EmbeddedFrame ==
    resetAt = <<>> =>
        \A p \in 0..(Len(input) - FrameLen) :
            GarbageFrameGarbageAt(input, p) =>
                emitted = IF fed >= p + FrameLen THEN <<FrameDelivery(input, p)>> ELSE <<>>

\* garbage with a stray marker on both sides, everything delivered in more
\* than one chunk, the frame found
C4_Witness ==
    /\ fed = Len(input)
    /\ resetAt = <<>>
    /\ \E p \in 1..(Len(input) - FrameLen - 1) :
          /\ GarbageFrameGarbageAt(input, p)
          /\ \E q \in 1..p : input[q] = Marker
          /\ \E q \in (p + FrameLen + 1)..Len(input) : input[q] = Marker
          /\ emitted = <<FrameDelivery(input, p)>>
    /\ rxHead > 0

\* [marker, 8, payload1, bad, marker, 8, payload2, good]
ResyncShape(s) ==
    /\ Len(s) = 2 * FrameLen
    /\ s[1] = Marker /\ s[2] = PayloadLen
    /\ s[FrameLen] # XorAll(SubSeq(s, 1, FrameLen - 1))
    /\ WireFrameAt(s, FrameLen)

\* C5 as stated: for any two payloads, the 22 bytes yield exactly one sample,
\* decoded from payload2.
C5_ResyncAnyPayload ==
    (ResyncShape(input) /\ fed = Len(input)) =>
        emitted = <<FrameDelivery(input, FrameLen)>>

\* C5 amended: the same, when no window that starts at offsets 1..10 of the
\* first frame passes the marker, length and checksum tests.
C5_Resync ==
    (/\ ResyncShape(input)
     /\ fed = Len(input)
     /\ \A q \in 1..(FrameLen - 1) : ~WireFrameAt(input, q)) =>
        emitted = <<FrameDelivery(input, FrameLen)>>

\* a payload1 that holds the bytes AA 08, and the sample of payload2 delivered
C5_Witness ==
    /\ ResyncShape(input)
    /\ fed = Len(input)
    /\ \A q \in 1..(FrameLen - 1) : ~WireFrameAt(input, q)
    /\ \E q \in 3..9 : input[q] = Marker /\ input[q + 1] = PayloadLen
    /\ emitted = <<FrameDelivery(input, FrameLen)>>

\* the number a is exactly x / 100, with the sign of x
IsHundredthsOf(a, x) ==
    /\ a.den > 0
    /\ 100 % a.den = 0
    /\ a.num * (100 \div a.den) = x

\* C6: the frame built from (cuffRaw, pulseRaw) yields exactly one sample,
\* cuffRaw / 100 and pulseRaw / 100.
C6_RoundTrip ==
    (Len(input) = FrameLen /\ fed = Len(input)) =>
        \A c \in RoundTripInts, p \in RoundTripInts :
            input = EncodeFrame(c, p) =>
                /\ Len(emitted) = 1
                /\ IsHundredthsOf(emitted[1].sample.cuff, c)
                /\ IsHundredthsOf(emitted[1].sample.pulse, p)
                /\ (emitted[1].sample.cuff.num < 0) = (c < 0)
                /\ (emitted[1].sample.pulse.num < 0) = (p < 0)

\* 12050, 8025 decoded as 120.50 (241/2) and 80.25 (321/4)
C6_Witness ==
    /\ input = EncodeFrame(12050, 8025)
    /\ fed = Len(input)
    /\ Samples(emitted) = <<[cuff |-> [num |-> 241, den |-> 2],
                            pulse |-> [num |-> 321, den |-> 4]]>>

\* C7: 0 <= rxHead <= capacity, and the bytes rxBuffer[0 .. rxHead) are the
\* bytes of the stream that no call has scanned past or dropped, in order.
C7_BufferInvariant ==
    /\ 0 <= rxHead /\ rxHead <= Capacity
    /\ Len(rxBuffer) = rxHead
    /\ consumed + rxHead = fed
    /\ rxBuffer = SubSeq(input, consumed + 1, fed)

\* a call that scanned past some bytes and kept a tail
C7_Witness == consumed > 0 /\ rxHead > 0 /\ Len(emitted) > 0

(***************************************************************************)
(* Properties of the page                                                  *)
(***************************************************************************)
\* the pending queue and the plotted series of the running page, as samples
Pending == PendingOf(build, state, chartBuffer)

CuffSeries ==
    IF build = "app" THEN cuffChart.data
    ELSE [i \in 1..Len(cuffChart.data) |-> cuffChart.data[i].y]

PulseSeries ==
    IF build = "app" THEN pulseChart.data
    ELSE [i \in 1..Len(pulseChart.data) |-> pulseChart.data[i].y]

Plotted == ZipSamples(CuffSeries, PulseSeries)

HistoryLimit == IF build = "app" THEN MAX_POINTS ELSE BundleMAX_POINTS

LastN(n, s) == IF Len(s) <= n THEN s ELSE SubSeq(s, Len(s) - n + 1, Len(s))

RECURSIVE Concat(_)
Concat(bs) == IF bs = <<>> THEN <<>> ELSE Head(bs) \o Concat(Tail(bs))

\* C8: a run of the render loop takes exactly the queue as it stood, in push
\* order, and leaves the queue empty (so a second run with no push in
\* between takes nothing); the batches taken since the last clear, followed
\* by what is still queued, are the samples pushed since that clear, none
\* lost, duplicated or reordered
C8_BatcherOrdering ==
    /\ Concat(batches) \o Pending = pushed
    /\ lastFlush.taken = lastFlush.due
    /\ lastOp = "renderLoop" => Pending = <<>>
    /\ Len(chartBuffer.cuff) = Len(chartBuffer.pulse)

\* several batches of several samples were taken, and the latest run of the
\* render loop found the queue empty
C8_Witness ==
    /\ lastOp = "renderLoop"
    /\ lastFlush.due = <<>>
    /\ Len(batches) >= 2
    /\ Len(batches[1]) >= 2

\* C9: each plotted series is never longer than MAX_POINTS (3000 in app.js,
\* 4000 in part_000) and holds exactly the latest min(MAX_POINTS, n) of the
\* n samples appended since the last clear, oldest first, whatever the batch
\* sizes were
C9_HistoryCap ==
    /\ Len(CuffSeries) <= HistoryLimit
    /\ Len(PulseSeries) <= HistoryLimit
    /\ CuffSeries = LastN(HistoryLimit, [i \in 1..Len(appended) |-> appended[i].cuff])
    /\ PulseSeries = LastN(HistoryLimit, [i \in 1..Len(appended) |-> appended[i].pulse])
    /\ build = "app" => /\ Len(cuffChart.labels) = Len(cuffChart.data)
                        /\ Len(pulseChart.labels) = Len(pulseChart.data)

\* the render loop has just appended one batch longer than the limit to a
\* chart that already held samples
C9_Witness ==
    /\ lastOp = "renderLoop"
    /\ Len(lastFlush.taken) > HistoryLimit
    /\ Len(appended) > Len(lastFlush.taken)
    /\ Len(CuffSeries) = HistoryLimit

\* index of the first entry of ds in the set S of indices, 0 if S is empty
FirstOf(S) == IF S = {} THEN 0 ELSE CHOOSE i \in S : \A j \in S : i <= j

\* ds from its entry number i on (nothing when i = 0)
From(ds, i) == IF i = 0 THEN <<>> ELSE SubSeq(ds, i, Len(ds))

SamplesOf(ds) == [i \in 1..Len(ds) |-> ds[i].sample]

\* the cuff value of delivery d is at or above / strictly above the
\* threshold in force when it was delivered
AtOrAbove(d) == d.sample.cuff.num >= d.thr * d.sample.cuff.den
Above(d) == d.sample.cuff.num > d.thr * d.sample.cuff.den
Unpaused(d) == ~d.paused

\* C10 as stated: once everything queued has been rendered, the plotted
\* series is what was delivered from the first sample at or above the
\* threshold on, up to eviction by the history limit
C10_TriggerGatingAtOrAbove ==
    Pending = <<>> =>
        Plotted = LastN(HistoryLimit,
                        SamplesOf(From(delivered,
                            FirstOf({i \in 1..Len(delivered) : AtOrAbove(delivered[i])}))))

\* a batch holds a sample with cuff >= 20
BatchAtOrAbove(batch) ==
    \E i \in 1..Len(batch) : batch[i].cuff.num >= BundleThreshold * batch[i].cuff.den

\* C10: app.js - of the samples delivered while the chart is not paused,
\* those before the first one whose cuff is strictly above the threshold are
\* excluded, that one and all later ones are queued and then plotted, up to
\* eviction by the history limit; samples delivered while paused are
\* excluded.  part_000 - the batches taken before the first batch that holds
\* a sample with cuff >= 20 are excluded, that whole batch and all later
\* batches are plotted, up to eviction by the history limit
C10_TriggerGating ==
    /\ build = "app" =>
          LET live  == SelectSeq(delivered, Unpaused)
              gated == SamplesOf(From(live,
                           FirstOf({i \in 1..Len(live) : Above(live[i])})))
          IN  /\ Len(Pending) <= Len(gated)
              /\ Pending = SubSeq(gated, Len(gated) - Len(Pending) + 1, Len(gated))
              /\ Plotted = LastN(MAX_POINTS,
                                 SubSeq(gated, 1, Len(gated) - Len(Pending)))
    /\ build = "bundle" =>
          /\ Concat(batches) \o Pending = SamplesOf(delivered)
          /\ Plotted = LastN(BundleMAX_POINTS,
                             Concat(From(batches,
                                 FirstOf({i \in 1..Len(batches) : BatchAtOrAbove(batches[i])}))))

\* app.js: a sample at exactly the threshold was delivered and left out, a
\* later one triggered, and a sample below the threshold delivered after it
\* is plotted
C10_Witness ==
    /\ build = "app"
    /\ Len(delivered) >= 3
    /\ AtOrAbove(delivered[1]) /\ ~Above(delivered[1])
    /\ Above(delivered[2])
    /\ ~AtOrAbove(delivered[3])
    /\ Len(Plotted) = 2
    /\ Plotted[2] = delivered[3].sample

(***************************************************************************)
(* Session specification: connecting, reading, commands, logging,          *)
(* unplugging and disconnecting, interleaved in every way, on either page  *)
(***************************************************************************)
MaxEvents == 3

SessionInput == EncodeFrame(2600, 8025) \o EncodeFrame(1900, 8025)

InitSessionRun ==
    /\ input = SessionInput
    /\ InitDecoder
    /\ \E b \in Builds : InitPage(b)
    /\ InitSession
    /\ budget = MaxEvents

NextSession ==
    \/ ConnectClick
    \/ PortChosen
    \/ ChooserCancelled
    \/ OpenResolved
    \/ OpenRejected
    \/ ReadChunk
    \/ ReadError
    \/ Unplug
    \/ StreamErrors
    \/ HardwareDisconnect
    \/ CancelResolved
    \/ CloseResolved
    \/ CloseRejected
    \/ StartClick
    \/ AbortClick
    \/ LinearClick
    \/ WriteDone
    \/ LogClick
    \/ PickerResolved
    \/ PickerRejected
    \/ CreateResolved
    \/ CreateRejected
    \/ HeaderWritten
    \/ LogClosed
    \/ RenderLoop
    \/ BundleRenderLoop
    \/ (~ModalOpen /\ Spend /\ ClearGraphs)
    \/ (~ModalOpen /\ Spend /\ BundleClearGraphs)
    \/ (~ModalOpen /\ Spend /\ FindMax)

SpecSession == InitSessionRun /\ [][NextSession]_vars

(***************************************************************************)
(* Properties of the session                                               *)
(***************************************************************************)
\* the plot trigger has fired
Triggered == IF build = "app" THEN state.isMonitoring ELSE state.hasTriggered

\* C11 (trigger latching): a step that takes the trigger from fired to
\* not-fired is a Clear Graphs click or the establishment of a connection;
\* no sample, command, pause, resume or logging step unsets it.
C11_TriggerLatching ==
    [][(Triggered /\ ~Triggered') => lastOp' \in {"clear", "connected"}]_vars

\* the trigger is still fired after a sample below the threshold arrived
C11_Witness ==
    /\ Triggered
    /\ lastOp = "data"
    /\ nDelivered = 2
    /\ Len(delivered) > 0
    /\ ~NumGT(delivered[Len(delivered)].sample.cuff, DefaultThreshold)

\* C12 (reset events): right after Clear Graphs and right after a connection
\* is established, nothing is plotted and the trigger is not fired.
C12_ResetEvents ==
    lastOp \in {"clear", "connected"} => (Plotted = <<>> /\ ~Triggered)

\* a call of the operation op has started and not finished
InProgress(op) == \E i \in 1..Len(calls) : calls[i].op = op

\* C13 (disconnect idempotence): disconnect() called while another
\* disconnect() is in progress completes without raising.
C13_DisconnectIdempotent ==
    [][(lastOp' = "disconnect" /\ InProgress("disconnect")) => raisedOps' = raisedOps]_vars

\* the connection log grew and now ends with the step e
Logged(e) == connLog' # connLog /\ Len(connLog') > 0 /\ connLog'[Len(connLog')] = e

\* C14 (disconnect sequence), as the code has it: the callback that
\* disconnect() invokes comes right after the close has completed.
C14_CallbackAfterClose ==
    [][Logged("callback") =>
          (Len(connLog') > 1 /\ connLog'[Len(connLog') - 1] = "closed")]_vars

\* C14 (disconnect sequence): disconnect() on a connection whose read is in
\* flight cancels the read, and the read loop ends and releases the reader
\* lock before anything else happens; the port is closed only when the loop
\* has ended and the lock is released; disconnect() invokes the callback only
\* right after the close has completed, or with no port left to close because
\* the device was unplugged in the meantime.
C14_DisconnectSequence ==
    [][/\ (lastOp' = "disconnect" /\ readLoop = "reading") =>
              /\ connLog' = connLog \o <<"cancel", "release">>
              /\ readLoop' = "ended"
              /\ ~device'.readLock
              /\ device'.state = device.state
       /\ Logged("close") => (~device.readLock /\ readLoop # "reading")
       /\ Logged("callback") =>
              \/ Len(connLog') > 1 /\ connLog'[Len(connLog') - 1] = "closed"
              \/ serial.port = "null"]_vars

\* a disconnect ran from the cancel to the callback
C14_Witness ==
    /\ connLog = <<"open", "cancel", "release", "close", "closed", "callback">>
    /\ serial.port = "null"
    /\ ~ui.connected

\* the steps of the connection log, as a set
LoggedSteps == {connLog[i] : i \in 1..Len(connLog)}

\* C15 (read failure): once the read loop has ended without a cancel, by a
\* failed read, and no handler and no device event is outstanding, the
\* disconnect callback has run: the page shows the connection as gone.
C15_ReadFailureNotifies ==
    (/\ readLoop = "ended"
     /\ "cancel" \notin LoggedSteps
     /\ calls = <<>>
     /\ ~device.event)
    => ~ui.connected

\* C16 (unplug): the 'disconnect' event of the port, with the callback it
\* runs, leaves the receive buffer, the scan cursor, the pending queue, the
\* trigger flag and the plotted series as they were.
C16_UnplugKeepsFrames ==
    [][lastOp' = "hwDisconnect" =>
          /\ rxBuffer' = rxBuffer
          /\ rxHead' = rxHead
          /\ Pending' = Pending
          /\ Triggered' = Triggered
          /\ Plotted' = Plotted]_vars

\* the device was unplugged with part of a frame in the buffer, the trigger
\* fired and a sample plotted
C16_Witness ==
    /\ lastOp = "hwDisconnect"
    /\ "hwcallback" \in LoggedSteps
    /\ rxHead > 0
    /\ Triggered
    /\ Plotted # <<>>

\* C17 (write): write() never raises, also when a second write is issued
\* before the first has settled.
C17_WriteNeverRaises == "write" \notin raisedOps

\* C20 (threshold selection): the threshold is 25 when a Start on a
\* connection has finished and 250 when a Linear on a connection has
\* finished; no other operation changes it; without a connection Start,
\* Abort and Linear send nothing and change no state.
C20_ThresholdSelection ==
    [][/\ (lastOp' = "startDone"
           \/ (lastOp' = "start" /\ serial.port # "null" /\ ~InProgress("start")'))
          => state'.monitoringThreshold = DefaultThreshold
       /\ (lastOp' = "linearDone"
           \/ (lastOp' = "linear" /\ serial.port # "null" /\ ~InProgress("linear")'))
          => state'.monitoringThreshold = LinearThreshold
       /\ (build = "app" /\ state'.monitoringThreshold # state.monitoringThreshold)
          => lastOp' \in {"start", "startDone", "linear", "linearDone"}
       /\ (lastOp' \in {"start", "abort", "linear"} /\ serial.port = "null")
          => (state' = state /\ sent' = sent /\ calls' = calls)]_vars

\* C18 (log file layout): in every log file the header line comes first and
\* exactly once, and every data row comes after it, however the arrival of
\* samples interleaves with the start of logging; and while logging is on,
\* the file written to already holds the header.
C18_LogLayout ==
    /\ \A k \in 1..Len(streams) :
          \/ streams[k].text = <<>>
          \/ /\ streams[k].text[1] = HeaderLine
             /\ \A j \in 2..Len(streams[k].text) : streams[k].text[j].kind = "row"
    /\ (state.isLogging /\ logger.writable # NoStream)
          => streams[logger.writable].text # <<>>

\* a log file holds the header and at least one row
C18_Witness ==
    \E k \in 1..Len(streams) :
        /\ Len(streams[k].text) >= 2
        /\ streams[k].text[1].kind = "header"
        /\ streams[k].text[2].kind = "row"

\* C19 (sink unavailable): when the selection of the file is cancelled or
\* fails, startLogging ends there: the logging flag, the logger and the
\* files are as before, no file is opened and nothing is written; and
\* Logger.start() returns false whenever no file is selected.
C19_SinkUnavailable ==
    [][/\ lastOp' = "notSelected" =>
              /\ state'.isLogging = state.isLogging
              /\ logger' = logger
              /\ streams' = streams
              /\ Len(calls') = Len(calls) - 1
              /\ ~\E i \in 1..Len(calls') : calls'[i].pc = "picking"
       /\ logger'.fileHandle = NoHandle => ~LoggerStart(logger')]_vars

\* the picker was dismissed and logging is off with no file opened
C19_Witness ==
    /\ lastOp = "notSelected"
    /\ ~state.isLogging
    /\ streams = <<>>
    /\ logger = NewLogger
    /\ ui.connected

\* the rows of the samples ds, as the log has them
Rows(ds) ==
    [i \in 1..Len(ds) |-> [kind |-> "row", cuff |-> ds[i].cuff, pulse |-> ds[i].pulse]]

\* the number of rows in all log files
RECURSIVE CountRows(_, _, _)
CountRows(ss, f, j) ==
    IF f > Len(ss) THEN 0
    ELSE IF j > Len(ss[f].text) THEN CountRows(ss, f + 1, 1)
    ELSE (IF ss[f].text[j].kind = "row" THEN 1 ELSE 0) + CountRows(ss, f, j + 1)

RowCount(ss) == CountRows(ss, 1, 1)

\* logging is on and its file takes writes
SinkOpen ==
    /\ state.isLogging
    /\ logger.writable # NoStream
    /\ streams[logger.writable].state = "open"

\* streams after the rows of ds went to the file of the logger
WithRows(ds) == [streams EXCEPT ![logger.writable].text = @ \o Rows(ds)]

\* C21 (logging independent of the trigger), as stated: on app.js every
\* sample delivered while state.isLogging is true adds one row to the log.
C21_EveryDeliveredSampleLogged ==
    [][(build = "app" /\ state.isLogging /\ Len(emitted') > Len(emitted))
          => RowCount(streams') =
                 RowCount(streams) + (Len(emitted') - Len(emitted))]_vars

\* C21 (logging independent of the trigger): every sample that reaches the
\* logging step while logging is on and its file is open is written as one
\* row, in arrival order, whatever the trigger and the pause flag; the
\* logging step is the delivery on app.js and the render frame, over the
\* samples pending then, on the bundle; otherwise the files are untouched.
C21_LoggingIndependent ==
    [][/\ (build = "app" /\ Len(emitted') > Len(emitted))
          => streams' = IF SinkOpen
                        THEN WithRows([i \in 1..(Len(emitted') - Len(emitted)) |->
                                          emitted'[Len(emitted) + i].sample])
                        ELSE streams
       /\ (build = "bundle" /\ Len(emitted') > Len(emitted)) => streams' = streams
       /\ (build = "bundle" /\ lastOp' = "renderLoop")
          => streams' = IF SinkOpen /\ Len(state.pendingData) > 0
                        THEN WithRows(state.pendingData)
                        ELSE streams]_vars

\* a row was written on app.js for a sample that did not fire the trigger
C21_Witness ==
    /\ build = "app"
    /\ lastOp = "data"
    /\ ~Triggered
    /\ RowCount(streams) > 0

\* C22 (plotted implies triggered): the plotted series is non-empty only
\* with the trigger fired; it changes only in a render frame or by Clear
\* Graphs, and a render frame appends to it only with the trigger fired,
\* also when the frame was scheduled or samples were pending before a Clear
\* Graphs.
C22_PlottedImpliesTriggered ==
    [][/\ Plotted' # <<>> => Triggered'
       /\ Plotted' # Plotted => lastOp' \in {"renderLoop", "clear"}
       /\ (Plotted' # Plotted /\ lastOp' = "renderLoop") => (Triggered' /\ Plotted' # <<>>)
       /\ (Plotted' # Plotted /\ lastOp' = "clear") => Plotted' = <<>>]_vars

\* Clear Graphs was clicked with a render frame still scheduled or samples
\* still pending, and the frame has run
C22_Witness ==
    /\ build = "app"
    /\ lastOp = "renderLoop"
    /\ nDelivered > 0
    /\ delivered = <<>>
    /\ ~Triggered
    /\ Plotted = <<>>

(***************************************************************************)
(* Properties of the decoder, continued                                    *)
(***************************************************************************)
\* position q of the stream (from 1) was never scanned: it was dropped by an
\* overflow reset, or it belongs to the chunk whose copy into the buffer threw
Dropped(q) ==
    \/ \E k \in 1..Len(resetAt) :
          resetAt[k].at - resetAt[k].dropped <= q /\ q < resetAt[k].at
    \/ raised /\ Len(resetAt) > 0 /\ q >= resetAt[Len(resetAt)].at

\* position q of the stream (from 1) lies in the window of a delivered sample
InWindow(q) == \E j \in 1..Len(emitted) : emitted[j].first <= q /\ q <= emitted[j].last

\* C23 (scan cursor): the cursor moves by 11 over a window that passes the
\* marker, length and checksum tests and by 1 otherwise; every delivered
\* sample comes from such a window of 11 consecutive bytes; the windows do
\* not overlap and are delivered in increasing stream position; and no
\* position the cursor has passed one byte at a time starts a valid frame.
C23_ScanCursor ==
    /\ \A q \in 0..(Len(input) - FrameLen) :
          q <= FineLimit =>
             ScanAdvance(input, q) = IF WireFrameAt(input, q) THEN FrameLen ELSE 1
    /\ \A j \in 1..Len(emitted) :
          /\ emitted[j].last = emitted[j].first + FrameLen - 1
          /\ WireFrameAt(input, emitted[j].first - 1)
          /\ j > 1 => emitted[j - 1].last < emitted[j].first
    /\ \A q \in 1..consumed :
          (input[q] = Marker /\ ~Dropped(q) /\ ~InWindow(q))
             => ~WireFrameAt(input, q - 1)

\* a stray marker byte right before a frame, and the frame delivered
C23_Witness ==
    /\ fed = Len(input)
    /\ \E j \in 1..Len(emitted) :
          /\ emitted[j].first > 1
          /\ input[emitted[j].first - 1] = Marker
          /\ consumed >= emitted[j].last

\* the payloads of the clean streams among the inputs
CleanPayloads ==
    {<<<<1, 2>>, <<3, 4>>, <<0 - 5, 6>>>>, <<<<567808, 0>>, <<567808, 0>>>>,
     <<<<12050, 8025>>>>, <<<<MaxInt32, MinInt32>>>>}

RECURSIVE FramesOf(_)
FramesOf(ps) ==
    IF ps = <<>> THEN <<>>
    ELSE EncodeFrame(ps[1][1], ps[1][2]) \o FramesOf(SubSeq(ps, 2, Len(ps)))

\* C24 (lossless decoding of a clean stream): for a stream of n valid frames
\* and nothing else, under any chunking without an overflow reset, the
\* samples delivered so far are those of the frames received in full: one
\* per frame, in order, the i-th decoded from the i-th frame.
C24_CleanStream ==
    \A ps \in CleanPayloads :
        (input = FramesOf(ps) /\ resetAt = <<>>) =>
            /\ Len(emitted) = fed \div FrameLen
            /\ \A i \in 1..Len(emitted) :
                  /\ emitted[i].first = FrameLen * (i - 1) + 1
                  /\ emitted[i].last = FrameLen * i
                  /\ IsHundredthsOf(emitted[i].sample.cuff, ps[i][1])
                  /\ IsHundredthsOf(emitted[i].sample.pulse, ps[i][2])

\* three frames, received in several reads, all three delivered
C24_Witness ==
    /\ input = FramesOf(<<<<1, 2>>, <<3, 4>>, <<0 - 5, 6>>>>)
    /\ fed = Len(input)
    /\ resetAt = <<>>
    /\ nDeliveries >= 2
    /\ Len(emitted) = 3

\* C25 (pause freeze, app.js): while the chart stays paused with its marker
\* shown, no step other than Clear Graphs changes the plotted series.
C25_PauseFreeze ==
    [][(/\ build = "app"
        /\ state.isPaused /\ state'.isPaused
        /\ pulseChart.marker # <<>>
        /\ lastOp' # "clear")
       => Plotted' = Plotted]_vars

\* C26 (per-session accumulation buffer): a new connection starts decoding
\* with an empty accumulation buffer.
C26_FreshBufferPerConnection == lastOp = "connected" => rxHead = 0


\* the disconnect callback has run since the last connection was opened
DisconnectNotified == LoggedSteps \cap {"callback", "hwcallback"} # {}

\* C27 (logging never outlives the connection): once the disconnect
\* notification of a connection has been processed and every handler in
\* progress has run to its end, logging is stopped: state.isLogging is false
\* and the logger holds no open stream, until a new connection is opened.
C27_LoggingEndsWithConnection ==
    (DisconnectNotified /\ calls = <<>>) =>
        (~state.isLogging /\ logger.writable = NoStream)

\* C28 (reader-lock release): whenever the read loop has ended, its finally
\* block has released the reader's lock on the port's readable stream and
\* startReading has not raised.
C28_ReaderLockReleased ==
    readLoop \notin {"none", "reading"} =>
        (readLoop = "ended" /\ ~device.readLock /\ "startReading" \notin raisedOps)

\* C29 (bounded remainder): every call of processIncomingChunk that returns
\* leaves at most FrameLen - 1 = 10 bytes in the accumulation buffer, so the
\* overflow reset is only ever taken for a chunk longer than Capacity - 10.
C29_RemainderBound ==
    [][(fed' # fed /\ ~raised') =>
          /\ rxHead' <= FrameLen - 1
          /\ Len(resetAt') > Len(resetAt) =>
                (fed' - fed) > Capacity - (FrameLen - 1)]_vars

\* a call that returned took the reset for a chunk of Capacity - 9 bytes
\* arriving behind a remainder of 10
C29_Witness ==
    /\ ~raised
    /\ Len(resetAt) > 0
    /\ resetAt[Len(resetAt)].dropped = FrameLen - 1
    /\ fed - resetAt[Len(resetAt)].at + 1 = Capacity - (FrameLen - 1) + 1
    /\ rxHead <= FrameLen - 1

\* the samples ss are consecutive samples, in delivery order, of those
\* delivered while the chart was not paused
RunOfDelivered(ss) ==
    \E live \in {SelectSeq(delivered, Unpaused)} :
    \E k \in 0..(Len(live) - Len(ss)) :
        \A i \in 1..Len(ss) : ss[i] = live[k + i].sample

\* C30 (cuff/pulse alignment): the plotted cuff and pulse series have the
\* same length and index i of both holds the two values of one delivered
\* sample; the cuff and pulse pending buffers have the same length and pair
\* up the same way - across pushes, flushes, evictions at the history limit
\* and Clear Graphs.
C30_CuffPulseAligned ==
    /\ Len(CuffSeries) = Len(PulseSeries)
    /\ Len(cuffChart.data) = Len(pulseChart.data)
    /\ Len(chartBuffer.cuff) = Len(chartBuffer.pulse)
    /\ RunOfDelivered(Plotted)
    /\ RunOfDelivered(Pending)

\* app.js: the history limit has evicted the oldest points and the newest
\* point of both series is the sample delivered last
C30_Witness ==
    /\ build = "app"
    /\ lastOp = "renderLoop"
    /\ Len(appended) > MAX_POINTS
    /\ Len(cuffChart.data) = MAX_POINTS
    /\ Len(pulseChart.data) = MAX_POINTS
    /\ Plotted[MAX_POINTS] = delivered[Len(delivered)].sample

\* the pulse value of the k-th sample delivered
PulseOf(k) == SampleOf(0, k).pulse

\* the k-th sample is in the pending chart buffer / in the plotted series
IsPending(k) ==
    build = "app" /\ \E i \in 1..Len(chartBuffer.pulse) : chartBuffer.pulse[i] = PulseOf(k)

IsPlotted(k) ==
    \E i \in 1..Len(pulseChart.data) : pulseChart.data[i] = PulseOf(k)

\* app.js: the host holds at most one renderLoop callback, it holds one
\* exactly when animationFrameId is set, and it holds one whenever the
\* pending chart buffer is not empty
FrameScheduled ==
    build = "app" =>
        /\ frames <= 1
        /\ frames = 1 <=> animationFrameId # NoFrame
        /\ Len(chartBuffer.cuff) > 0 => frames = 1

\* C31 (render scheduling, app.js): at most one render frame is scheduled at
\* any time, a frame is scheduled whenever the pending chart buffer is not
\* empty, and with a host that runs scheduled frames every sample put in the
\* pending buffer is eventually in the plotted series, unless Clear Graphs
\* discards it first.
C31_RenderScheduling ==
    /\ []FrameScheduled
    /\ \A k \in 1..MaxSamples :
          IsPending(k) ~> (IsPlotted(k) \/ lastOp = "clear")

\* the frame scheduled by the first push has run after two more samples
\* were pushed, and has moved all three to the plotted series
C31_Witness ==
    /\ build = "app"
    /\ lastOp = "renderLoop"
    /\ frames = 0
    /\ Len(lastFlush.taken) = 3
    /\ \A k \in 1..3 : IsPlotted(k)

\* C32 (connection flag consistency): when connect() has returned
\* success: false - the device selection was cancelled or the port did not
\* open - serial.port is null, so the next click on the connect button
\* connects again.
C32_FailedConnectLeavesNoPort ==
    lastOp \in {"notChosen", "notOpened"} => serial.port = "null"

====
